---------------------------- MODULE Spec2Model ----------------------------
(***************************************************************************)
(* Traffic analytics engine: the session-and-command plane and the SDK.    *)
(*                                                                         *)
(*   - the token-bucket rate limiter (rate-limiter.js)                     *)
(*   - the event sink (ClickHouseService, hardened variant) and /beacon    *)
(*   - the WebSocket server, the command bus and the admin routes          *)
(*   - the client SDK: the tracker and its command dispatcher              *)
(*                                                                         *)
(* The specifications share the module and its initial state:              *)
(*   SpecLimiter  the limiter under a clock                                *)
(*   SpecSink     the event sink and the beacon endpoint                   *)
(*   Spec         the admin API, the command bus and one client connection *)
(*   SpecBinding  two client connections and the command bus               *)
(*   SpecTraffic  one client connection sending frames under the clock     *)
(*   SpecBan         a flooding client and a newcomer to its session       *)
(*   SpecValidation  admin requests with invalid input                     *)
(*   SpecTargeting   batch actions against two client connections          *)
(*   SpecFrames      frame handlers interleaving at their store writes     *)
(*   SpecClient      one page running the SDK, its user and its server     *)
(*   SpecDispatch    the SDK's command dispatcher alone                    *)
(*   SpecTracker     the SDK's tracker alone                               *)
(*   SpecRace        admin latency requests racing the auto-throttle       *)
(*   SpecRebind      one connection handshaking under two sessionHashes    *)
(*   SpecScore       risk scores over all violation statistics             *)
(***************************************************************************)
EXTENDS Integers, Sequences, FiniteSets, TLC

VARIABLES
    now,             \* Date.now(), in clock ticks
    buckets,         \* RateLimiter.buckets:        key -> TokenBucket | None
    violations,      \* RateLimiter.violations:     key -> record | None
    bannedSessions,  \* RateLimiter.bannedSessions: key -> record | None
    result,          \* what the last isAllowed call returned, and for which key
    window,          \* observer: an interval of admissions on one bucket
    eventQueue,      \* ClickHouseService.eventQueue
    inflight,        \* flushes whose insert has not settled yet
    isShuttingDown,  \* ClickHouseService.isShuttingDown
    flushTimer,      \* whether the flush interval timer is armed
    nextId,          \* the next event a client produces
    beacon,          \* the POST /beacon request being served
    connections,     \* WebSocketServer.connections: connectionId -> record | None
    accepted,        \* connection ids handed out so far (uuidv4, never reused)
    outbox,          \* the last frame sent on each connection's socket | None
    bus,             \* traffic:commands messages published, not yet delivered
    sessions,        \* sessions table: session_hash -> row | None
    online,          \* the Redis presence set
    commandLog,      \* command_history table: the command ids logged
    nextCmd,         \* the next command id (uuidv4) to hand out
    admin,           \* the /admin request being served
    frames,          \* each connection's frame handlers that await the store
    tracker,         \* the client SDK's tracker: where its initialisation stands
    consentGiven,    \* TrafficAnalyticsTracker.consentGiven
    socket,          \* the state of TrafficAnalyticsTracker.socket
    isConnected,     \* TrafficAnalyticsTracker.isConnected
    clientQueue,     \* the length of TrafficAnalyticsTracker.eventQueue
    clientTimer,     \* whether the tracker's flush interval is armed
    reconnects,      \* the due times of the pending reconnect timeouts
    currentLatency,  \* CommandDispatcher.currentLatency
    isTerminated,    \* CommandDispatcher.isTerminated
    delayed,         \* dispatches waiting in simulateLatency
    executed,        \* the command whose handler ran last
    wire             \* what the client has put on the network so far

limiterVars == <<now, buckets, violations, bannedSessions>>
obsVars == <<result, window>>
sinkVars == <<eventQueue, inflight, isShuttingDown, flushTimer>>
beaconVars == <<nextId, beacon>>
serverVars == <<connections, accepted, outbox, bus, sessions, online, commandLog,
                nextCmd, admin, frames>>
clientVars == <<tracker, consentGiven, socket, isConnected, clientQueue, clientTimer,
                reconnects, currentLatency, isTerminated, delayed, executed, wire>>
vars == <<now, buckets, violations, bannedSessions, result, window,
          eventQueue, inflight, isShuttingDown, flushTimer, nextId, beacon,
          connections, accepted, outbox, bus, sessions, online, commandLog,
          nextCmd, admin, frames,
          tracker, consentGiven, socket, isConnected, clientQueue, clientTimer,
          reconnects, currentLatency, isTerminated, delayed, executed, wire>>

\* an absent record (a Map without the key, a null object)
None == [absent |-> TRUE]
\* an absent string (null, undefined)
NoKey == "none"

Min(a, b) == IF a < b THEN a ELSE b
CeilDiv(a, b) == (a + b - 1) \div b

(***************************************************************************)
(* Limiter configuration.  The server configures capacity 20, refillRate   *)
(* 5 per 1000 ms, banThreshold 50, banDuration 300000 ms and cleanup       *)
(* evicts after 3600000 ms; the model keeps the roles and the ordering of  *)
(* these numbers and checks the limiter for small values of them.          *)
(***************************************************************************)
capacity == 2
refillRate == 1
refillInterval == 2
banThreshold == 4
banDuration == 3
maxAge == 5
maxEventsPerSecond == 5
throttleLatency == 2000
\* one second in clock ticks: refillInterval is the 1000 ms of one second
TicksPerSecond == refillInterval

MaxNow == 7

Hashes == {"h1", "h2"}
Conns == {"c1", "c2"}
Keys == Hashes \cup Conns
LimiterKeys == {"h1"}
SinkHashes == {"h1"}

(***************************************************************************)
(* TokenBucket                                                             *)
(***************************************************************************)
NewBucket(t) == [tokens |-> capacity, lastRefill |-> t]

\* refill that forgets to move lastRefill forward
refillKeepsLastRefill(b, t) ==
    LET intervalsElapsed == (t - b.lastRefill) \div refillInterval
    IN  IF intervalsElapsed > 0
        THEN [tokens |-> Min(capacity, b.tokens + intervalsElapsed * refillRate),
              lastRefill |-> b.lastRefill]
        ELSE b

refill(b, t) ==
    LET intervalsElapsed == (t - b.lastRefill) \div refillInterval
    IN  IF intervalsElapsed > 0
        THEN [tokens |-> Min(capacity, b.tokens + intervalsElapsed * refillRate),
              lastRefill |-> t]
        ELSE b

\* tryConsume that takes a token without looking at the count
tryConsumeOverdraw(b, t) ==
    LET r == refill(b, t)
    IN  [bucket |-> [r EXCEPT !.tokens = r.tokens - 1], ok |-> TRUE]

\* tryConsume(1): the bucket after the call, and whether a token was taken
tryConsume(b, t) ==
    LET r == refill(b, t)
    IN  IF r.tokens >= 1
        THEN [bucket |-> [r EXCEPT !.tokens = r.tokens - 1], ok |-> TRUE]
        ELSE [bucket |-> r, ok |-> FALSE]

\* getTokens() as a query: what the bucket would report at time t
getTokens(b, t) == refill(b, t).tokens

(***************************************************************************)
(* RateLimiter, as operators over (buckets, violations, bannedSessions)    *)
(***************************************************************************)
getBucket(bs, k, t) == IF bs[k] = None THEN NewBucket(t) ELSE bs[k]

banExpired(bans, k, t) == bans[k] # None /\ t - bans[k].bannedAt >= bans[k].duration

isBannedLate(bans, k, t) ==
    bans[k] # None /\ ~banExpired(bans, k, t) /\ t > bans[k].bannedAt

isBanned(bans, k, t) == bans[k] # None /\ ~banExpired(bans, k, t)

\* isBanned deletes an expired ban on read
bansAfterRead(bans, k, t) ==
    IF banExpired(bans, k, t) THEN [bans EXCEPT ![k] = None] ELSE bans

ban(bans, k, t) ==
    [bans EXCEPT ![k] = [bannedAt |-> t, duration |-> banDuration]]

\* a recordViolation that starts a new record once the last violation is
\* banDuration old
recordViolationExpiring(vs, k, t) ==
    LET v0 == IF vs[k] = None \/ t - vs[k].lastViolation >= banDuration
              THEN [count |-> 0, firstViolation |-> t, lastViolation |-> t]
              ELSE vs[k]
    IN  [vs EXCEPT ![k] = [v0 EXCEPT !.count = v0.count + 1, !.lastViolation = t]]

recordViolation(vs, k, t) ==
    LET v0 == IF vs[k] = None
              THEN [count |-> 0, firstViolation |-> t, lastViolation |-> t]
              ELSE vs[k]
    IN  [vs EXCEPT ![k] = [v0 EXCEPT !.count = v0.count + 1, !.lastViolation = t]]

\* eventsPerSecond > limit, with eventsPerSecond = (count / duration) * 1000:
\* a zero duration makes the quotient Infinity (count >= 1 in every record)
epsAbove(v, t, limit) ==
    LET duration == t - v.firstViolation
    IN  IF duration = 0 THEN v.count > 0
        ELSE v.count * TicksPerSecond > limit * duration

getViolationStats(vs, k, t) ==
    IF k = NoKey \/ vs[k] = None THEN None
    ELSE [count |-> vs[k].count,
          epsAbove5 |-> epsAbove(vs[k], t, 5),
          epsAbove10 |-> epsAbove(vs[k], t, 10),
          shouldThrottle |-> epsAbove(vs[k], t, maxEventsPerSecond),
          throttleLatency |-> throttleLatency]

\* an isAllowed that takes the token before it looks at the ban
isAllowedChargeFirst(bs, vs, bans, k, t) ==
    LET c == tryConsume(getBucket(bs, k, t), t)
        bs1 == [bs EXCEPT ![k] = c.bucket]
    IN  IF isBanned(bans, k, t)
        THEN [buckets |-> bs1, violations |-> vs, bannedSessions |-> bans,
              allowed |-> FALSE, reason |-> "banned"]
        ELSE IF c.ok
             THEN [buckets |-> bs1, violations |-> vs,
                   bannedSessions |-> bansAfterRead(bans, k, t),
                   allowed |-> TRUE, reason |-> "ok"]
             ELSE LET vs1 == recordViolation(vs, k, t)
                      bans1 == bansAfterRead(bans, k, t)
                  IN  [buckets |-> bs1, violations |-> vs1,
                       bannedSessions |-> IF vs1[k].count >= banThreshold
                                          THEN ban(bans1, k, t) ELSE bans1,
                       allowed |-> FALSE, reason |-> "rate_limit"]

\* isAllowed(sessionId): the limiter after the call and the value returned
isAllowed(bs, vs, bans, k, t) ==
    IF isBanned(bans, k, t)
    THEN [buckets |-> bs, violations |-> vs, bannedSessions |-> bans,
          allowed |-> FALSE, reason |-> "banned"]
    ELSE LET bans1 == bansAfterRead(bans, k, t)
             c == tryConsume(getBucket(bs, k, t), t)
             bs1 == [bs EXCEPT ![k] = c.bucket]
         IN  IF c.ok
             THEN [buckets |-> bs1, violations |-> vs, bannedSessions |-> bans1,
                   allowed |-> TRUE, reason |-> "ok"]
             ELSE LET vs1 == recordViolation(vs, k, t)
                      bans2 == IF vs1[k].count >= banThreshold
                               THEN ban(bans1, k, t) ELSE bans1
                  IN  [buckets |-> bs1, violations |-> vs1, bannedSessions |-> bans2,
                       allowed |-> FALSE, reason |-> "rate_limit"]

\* cleanup(): the three maps after the periodic sweep
cleanupBuckets(bs, t) ==
    [k \in DOMAIN bs |->
        IF bs[k] # None /\ t - bs[k].lastRefill > maxAge THEN None ELSE bs[k]]

cleanupViolations(vs, t) ==
    [k \in DOMAIN vs |->
        IF vs[k] # None /\ t - vs[k].lastViolation > maxAge THEN None ELSE vs[k]]

\* a sweep whose expiry test is inverted: it purges the bans still running
cleanupBansInverted(bans, t) ==
    [k \in DOMAIN bans |-> IF bans[k] # None /\ ~banExpired(bans, k, t) THEN None ELSE bans[k]]

cleanupBans(bans, t) ==
    [k \in DOMAIN bans |-> IF banExpired(bans, k, t) THEN None ELSE bans[k]]

(***************************************************************************)
(* Event sink: ClickHouseService (the @clickhouse/client variant)          *)
(*                                                                         *)
(* The service keeps at most MAX_QUEUE_SIZE = 10000 rows, flushes at       *)
(* batchSize = 100 and puts back at most 1000 rows of a failed batch; the  *)
(* model keeps batchSize <= RequeueLimit < MAX_QUEUE_SIZE, small values.   *)
(***************************************************************************)
MAX_QUEUE_SIZE == 3
batchSize == 2
RequeueLimit == 2

MaxEvents == 4
MaxBodyEvents == batchSize

\* an event as a client produces it: its identity, and the sessionHash it
\* carries (NoKey when the field is missing)
Event(id, h) == [id |-> id, sessionHash |-> h]

\* formatEventRow(event) throws 'Invalid session hash' on such an event
invalidEvent(e) == e.sessionHash = NoKey

InitSink ==
    /\ eventQueue = <<>>
    /\ inflight = {}
    /\ isShuttingDown = FALSE
    /\ flushTimer = TRUE

\* a flush that sends the queue and keeps it
flushKeepsQueue(q, infl, w) ==
    IF Len(q) = 0
    THEN [eventQueue |-> q, inflight |-> infl, started |-> FALSE]
    ELSE [eventQueue |-> q,
          inflight |-> infl \cup {[batch |-> q, waiter |-> w]},
          started |-> TRUE]

\* flush() up to its await: the queue is taken as one batch whose insert is
\* then pending; w names the caller that awaits the insert
flush(q, infl, w) ==
    IF Len(q) = 0
    THEN [eventQueue |-> q, inflight |-> infl, started |-> FALSE]
    ELSE [eventQueue |-> <<>>,
          inflight |-> infl \cup {[batch |-> q, waiter |-> w]},
          started |-> TRUE]

\* logEvent(event) up to its await
logEvent(q, infl, shut, e, w) ==
    IF shut
    THEN [eventQueue |-> q, inflight |-> infl, started |-> FALSE, outcome |-> "refused"]
    ELSE IF Len(q) >= MAX_QUEUE_SIZE
    THEN [eventQueue |-> q, inflight |-> infl, started |-> FALSE, outcome |-> "dropped"]
    ELSE IF invalidEvent(e)
    THEN [eventQueue |-> q, inflight |-> infl, started |-> FALSE, outcome |-> "threw"]
    ELSE LET q1 == Append(q, e)
         IN  IF Len(q1) >= batchSize
             THEN LET f == flush(q1, infl, w)
                  IN  [eventQueue |-> f.eventQueue, inflight |-> f.inflight,
                       started |-> f.started, outcome |-> "queued"]
             ELSE [eventQueue |-> q1, inflight |-> infl, started |-> FALSE,
                   outcome |-> "queued"]

\* a catch branch that puts the whole failed batch back
requeueAll(q, batch) == batch \o q

\* the catch branch of flush(): what the queue is after a failed insert
requeue(q, batch) ==
    IF Len(q) < RequeueLimit
    THEN SubSeq(batch, 1, Min(Len(batch), RequeueLimit - Len(q))) \o q
    ELSE q

\* (the request's memory is released when the callback has ended: the model
\* forgets the body's events then)

\* a handler of the server logs one event (handleEvent, handleBatchEvents)
LogEvent(h) ==
    /\ nextId <= MaxEvents
    /\ LET r == logEvent(eventQueue, inflight, isShuttingDown, Event(nextId, h), "frame")
       IN  /\ eventQueue' = r.eventQueue
           /\ inflight' = r.inflight
    /\ nextId' = nextId + 1
    /\ UNCHANGED <<isShuttingDown, flushTimer, beacon, limiterVars, obsVars, serverVars, clientVars>>

\* the flush interval timer fires
FlushTimer ==
    /\ flushTimer
    /\ LET f == flush(eventQueue, inflight, "timer")
       IN  /\ f.started
           /\ eventQueue' = f.eventQueue
           /\ inflight' = f.inflight
    /\ UNCHANGED <<isShuttingDown, flushTimer, beaconVars, limiterVars, obsVars, serverVars, clientVars>>

\* a pending insert succeeds
InsertOk(f) ==
    /\ inflight' = inflight \ {f}
    /\ UNCHANGED <<eventQueue, isShuttingDown, flushTimer, beaconVars, limiterVars, obsVars, serverVars, clientVars>>

\* a pending insert fails: flush() runs its catch branch
InsertFail(f) ==
    /\ eventQueue' = requeue(eventQueue, f.batch)
    /\ inflight' = inflight \ {f}
    /\ UNCHANGED <<isShuttingDown, flushTimer, beaconVars, limiterVars, obsVars, serverVars, clientVars>>

\* close(): refuse new events, stop the timer, flush what is left
Close ==
    /\ ~isShuttingDown
    /\ isShuttingDown' = TRUE
    /\ flushTimer' = FALSE
    /\ LET f == flush(eventQueue, inflight, "close")
       IN  /\ eventQueue' = f.eventQueue
           /\ inflight' = f.inflight
    /\ UNCHANGED <<beaconVars, limiterVars, obsVars, serverVars, clientVars>>

(***************************************************************************)
(* POST /beacon                                                            *)
(***************************************************************************)
\* request.body as the handler sees it: nothing, a string, an object, and
\* what its `events` member is
BodyKinds == {"null", "string", "noEvents", "eventsNumber", "eventsArray"}

\* `events && events.events`
hasEvents(body) == body.kind \in {"eventsNumber", "eventsArray"}

\* a handler that rejects a body without events
beaconStatusStrict(body) == IF hasEvents(body) THEN 204 ELSE 400

\* the status the handler answers with, on both of its paths
beaconStatus(body) == 204

NoBeacon == [pc |-> "idle", body |-> [kind |-> "null", events |-> <<>>],
             status |-> 0, rest |-> <<>>]

InitBeacon ==
    /\ nextId = 1
    /\ beacon = NoBeacon

\* a client posts a body; an events array holds n events, each with or
\* without a sessionHash of its own
BeaconRequest(kind, n, h) ==
    /\ beacon.pc \in {"idle", "done"}
    /\ nextId + n - 1 <= MaxEvents
    /\ kind = "eventsArray" \/ n = 0
    /\ beacon' = [pc |-> "received",
                  body |-> [kind |-> kind,
                            events |-> [i \in 1..n |-> Event(nextId + i - 1, h)]],
                  status |-> 0, rest |-> <<>>]
    /\ nextId' = nextId + n
    /\ UNCHANGED <<sinkVars, limiterVars, obsVars, serverVars, clientVars>>

\* the route handler: schedule the processing with setImmediate, answer
\* (the callback keeps the events it closes over in `rest`)
BeaconHandler ==
    /\ beacon.pc = "received"
    /\ beacon' = [beacon EXCEPT
                     !.status = beaconStatus(beacon.body),
                     !.pc = IF hasEvents(beacon.body) THEN "immediate" ELSE "done",
                     !.rest = beacon.body.events,
                     !.body = IF hasEvents(beacon.body) THEN beacon.body
                              ELSE NoBeacon.body]
    /\ UNCHANGED <<nextId, sinkVars, limiterVars, obsVars, serverVars, clientVars>>

\* the setImmediate callback: one turn of `for (const event of events.events)
\* await logEvent(event)`; a non-iterable `events` or a throwing logEvent
\* rejects the callback, which ends it
BeaconImmediate ==
    /\ beacon.pc = "immediate"
    /\ ~\E f \in inflight : f.waiter = "beacon"
    /\ IF beacon.body.kind = "eventsNumber" \/ beacon.rest = <<>>
       THEN /\ beacon' = [beacon EXCEPT !.pc = "done", !.rest = <<>>, !.body = NoBeacon.body]
            /\ UNCHANGED sinkVars
       ELSE LET r == logEvent(eventQueue, inflight, isShuttingDown,
                              Head(beacon.rest), "beacon")
            IN  /\ eventQueue' = r.eventQueue
                /\ inflight' = r.inflight
                /\ beacon' = IF r.outcome = "threw"
                             THEN [beacon EXCEPT !.pc = "done", !.rest = <<>>,
                                                 !.body = NoBeacon.body]
                             ELSE [beacon EXCEPT !.rest = Tail(beacon.rest)]
                /\ UNCHANGED <<isShuttingDown, flushTimer>>
    /\ UNCHANGED <<nextId, limiterVars, obsVars, serverVars, clientVars>>

NextS ==
    \/ \E h \in SinkHashes : LogEvent(h)
    \/ FlushTimer
    \/ \E f \in inflight : InsertOk(f)
    \/ \E f \in inflight : InsertFail(f)
    \/ Close
    \/ \E kind \in BodyKinds, n \in 0..MaxBodyEvents, h \in SinkHashes \cup {NoKey} :
          BeaconRequest(kind, n, h)
    \/ BeaconHandler
    \/ BeaconImmediate


(***************************************************************************)
(* The server: connections, session store, command bus, admin API          *)
(***************************************************************************)
\* command ids handed out in one behaviour
MaxCommands == 2

\* calculateRiskScore's violation-count thresholds (30 and 10 in the source,
\* against a ban threshold of 50), scaled with banThreshold
violationsHigh == 2
violationsMedium == 1
\* the score above which a session is flagged a bot
botThreshold == 80

ValidKey == "valid"
ApiKeys == {ValidKey, "wrong", NoKey}
Routes == {"get", "upspin", "downspin", "terminate", "notify", "redirect", "batch"}
ModeRoutes == {"upspin", "downspin", "terminate"}
BatchActions == {"upspin", "downspin", "terminate", "other", NoKey}
FrameTypes == {"handshake", "batch", "pong"}
\* latency_ms values an administrator sends (0 in a body: the field is absent)
Latencies == {500}
\* the sessionHashes arrays of a batch-action body
HashLists == {<<>>, <<"h1">>}

\* a row as INSERT creates it: the schema's column defaults (the columns the
\* mode, risk and presence writes touch; the event and violation counters
\* and the timestamps are not tracked)
NewSession ==
    [mode |-> "normal", latency |-> 0, connected |-> TRUE,
     riskScore |-> 0, isBot |-> FALSE]

hasSession(ss, h) == h \in DOMAIN ss /\ ss[h] # None

\* INSERT ... ON CONFLICT (session_hash) DO UPDATE SET connected = true, ...
upsertSession(ss, h) ==
    IF h \notin DOMAIN ss THEN ss
    ELSE IF ss[h] = None THEN [ss EXCEPT ![h] = NewSession]
    ELSE [ss EXCEPT ![h].connected = TRUE]

\* UPDATE sessions SET connected = $1 WHERE session_hash = $2
updateSessionStatus(ss, h, connected) ==
    IF hasSession(ss, h) THEN [ss EXCEPT ![h].connected = connected] ELSE ss

\* UPDATE sessions SET mode = $1, current_latency_ms = $2 WHERE session_hash = $3
updateSessionMode(ss, h, mode, latency) ==
    IF hasSession(ss, h)
    THEN [ss EXCEPT ![h].mode = mode, ![h].latency = latency]
    ELSE ss

\* UPDATE sessions SET risk_score = $1, is_bot = $2 WHERE session_hash = $3
updateRiskScore(ss, h, riskScore, isBot) ==
    IF hasSession(ss, h)
    THEN [ss EXCEPT ![h].riskScore = riskScore, ![h].isBot = isBot]
    ELSE ss

\* INSERT INTO command_history ... SELECT ... FROM sessions WHERE session_hash = $7
logCommand(log, ss, id, h) == IF hasSession(ss, h) THEN log \cup {id} ELSE log

\* a score whose two rate tests both add (`if` in place of `else if`)
calculateRiskScoreBothRates(stats) ==
    LET rate == (IF stats.epsAbove10 THEN 40 ELSE 0) + (IF stats.epsAbove5 THEN 20 ELSE 0)
        count == IF stats.count > violationsHigh THEN 30
                 ELSE IF stats.count > violationsMedium THEN 15 ELSE 0
    IN  Min(100, rate + count)

calculateRiskScore(stats) ==
    LET rate == IF stats.epsAbove10 THEN 40 ELSE IF stats.epsAbove5 THEN 20 ELSE 0
        count == IF stats.count > violationsHigh THEN 30
                 ELSE IF stats.count > violationsMedium THEN 15 ELSE 0
    IN  Min(100, rate + count)

isBotLow(riskScore) == riskScore > 8

\* the is_bot argument handleBatchEvents passes with the score
isBot(riskScore) == riskScore > botThreshold

\* ws.send when the socket is open, nothing otherwise
sendToClient(box, ws, frame) == IF ws = "OPEN" THEN frame ELSE box

\* the traffic:commands subscriber: the command goes to every connection
\* whose sessionHash is the message's
subscribeToCommands(ob, conns, msg) ==
    [c \in DOMAIN ob |->
        IF conns[c] # None /\ conns[c].sessionHash = msg.sessionHash
        THEN sendToClient(ob[c], conns[c].ws, msg.command)
        ELSE ob[c]]

\* redis.publish('traffic:commands', {sessionHash, command})
publish(b, h, command) == Append(b, [sessionHash |-> h, command |-> command])

\* what each mode route writes to the store
routeWriteBodyLatency(route, latency) ==
    [mode |-> IF route = "terminate" THEN "terminated" ELSE route, latency |-> latency]

routeWrite(route, latency) ==
    CASE route = "upspin" -> [mode |-> "upspin", latency |-> 0]
      [] route = "downspin" -> [mode |-> "downspin", latency |-> latency]
      [] route = "terminate" -> [mode |-> "terminated", latency |-> 0]

\* the command each route builds
routeCommandDefaultLatency(route, id, latency) ==
    CASE route \in {"upspin", "downspin"} ->
            [id |-> id, type |-> "SET_LATENCY",
             latency |-> IF route = "upspin" THEN 0 ELSE throttleLatency]
      [] route = "terminate" -> [id |-> id, type |-> "TERMINATE"]
      [] route = "notify" -> [id |-> id, type |-> "TOAST_ALERT"]
      [] route = "redirect" -> [id |-> id, type |-> "REDIRECT"]

routeCommand(route, id, latency) ==
    CASE route = "upspin" -> [id |-> id, type |-> "SET_LATENCY", latency |-> 0]
      [] route = "downspin" -> [id |-> id, type |-> "SET_LATENCY", latency |-> latency]
      [] route = "terminate" -> [id |-> id, type |-> "TERMINATE"]
      [] route = "notify" -> [id |-> id, type |-> "TOAST_ALERT"]
      [] route = "redirect" -> [id |-> id, type |-> "REDIRECT"]

\* the preHandler hook's test
unauthorizedWrongOnly(apiKey) == apiKey = "wrong"

unauthorized(apiKey) == apiKey # ValidKey

NoBody == [present |-> FALSE, latency |-> 0, action |-> NoKey, hashes |-> <<>>]
Idle == [pc |-> "idle", route |-> "get", key |-> ValidKey, h |-> NoKey,
         body |-> NoBody, status |-> 0, rest |-> <<>>, cmd |-> 0]

\* the request bodies a route reads
Bodies(route) ==
    CASE route \in {"get", "upspin", "terminate"} -> {NoBody}
      [] route = "downspin" -> {[NoBody EXCEPT !.latency = l] : l \in Latencies}
      [] route \in {"notify", "redirect"} -> {[NoBody EXCEPT !.present = p] : p \in BOOLEAN}
      [] route = "batch" ->
            {NoBody} \cup
            {[present |-> TRUE, latency |-> 0, action |-> a, hashes |-> hs] :
                a \in BatchActions, hs \in HashLists}

InitServer ==
    /\ connections = [c \in Conns |-> None]
    /\ accepted = {}
    /\ outbox = [c \in Conns |-> None]
    /\ bus = <<>>
    /\ sessions = [h \in Hashes |-> None]
    /\ online = {}
    /\ commandLog = {}
    /\ nextCmd = 1
    /\ admin = Idle
    /\ frames = [c \in Conns |-> <<>>]


\* sendThrottleCommand: publish SET_LATENCY, then write mode downspin; the
\* store write throws when the database is unreachable
sendThrottleCommandPublishOnly(b, ss, id, h, latency, db) ==
    [bus |-> publish(b, h, [id |-> id, type |-> "SET_LATENCY", latency |-> latency]),
     sessions |-> ss]

sendThrottleCommand(b, ss, id, h, latency, db) ==
    [bus |-> publish(b, h, [id |-> id, type |-> "SET_LATENCY", latency |-> latency]),
     sessions |-> IF db THEN updateSessionMode(ss, h, "downspin", latency) ELSE ss]

\* the connection ids uuidv4 hands out, in order
ConnectionIds == <<"c1", "c2">>

\* wss 'connection': the connection is registered unbound and greeted
Connect(c) ==
    /\ Cardinality(accepted) < Len(ConnectionIds)
    /\ c = ConnectionIds[Cardinality(accepted) + 1]
    /\ accepted' = accepted \cup {c}
    /\ connections' = [connections EXCEPT ![c] = [sessionHash |-> NoKey, ws |-> "OPEN"]]
    /\ outbox' = [outbox EXCEPT ![c] = sendToClient(@, "OPEN", [type |-> "connected"])]
    /\ UNCHANGED <<bus, sessions, online, commandLog, nextCmd, admin, frames>>
    /\ UNCHANGED <<limiterVars, obsVars, sinkVars, beaconVars, clientVars>>

\* a binding that follows the sessionHash of the latest frame
bindLatest(current, h) == IF h # NoKey THEN h ELSE current

\* `if (!connection.sessionHash && sessionHash) connection.sessionHash =
\* sessionHash`: the connection's sessionHash after a frame carrying h
bind(current, h) == IF current = NoKey /\ h # NoKey THEN h ELSE current

\* ws 'message': handleMessage for a frame of the given type carrying
\* sessionHash h (NoKey: none); db tells whether the session store answers.
\* A batch frame carries an empty events array; frames that log events are
\* the LogEvent action of the event sink.
HandleMessage(c, type, h, db) ==
    /\ connections[c] # None
    /\ LET connection == connections[c]
           bound == bind(connection.sessionHash, h)
           conns1 == [connections EXCEPT ![c].sessionHash = bound]
           key == IF h # NoKey THEN h ELSE c
           r == isAllowed(buckets, violations, bannedSessions, key, now)
           stats == getViolationStats(r.violations, h, now)
           throttled == sendThrottleCommand(bus, sessions, nextCmd, h, throttleLatency, db)
       IN  /\ buckets' = r.buckets
           /\ violations' = r.violations
           /\ bannedSessions' = r.bannedSessions
           /\ IF ~r.allowed /\ r.reason = "banned"
              THEN /\ outbox' = [outbox EXCEPT ![c] =
                                    sendToClient(@, connection.ws,
                                        [id |-> 0, type |-> "TERMINATE",
                                         reason |-> "Too many requests - temporarily banned"])]
                   /\ connections' = [conns1 EXCEPT ![c].ws = "CLOSING"]
                   /\ UNCHANGED <<bus, sessions, online, nextCmd>>
              ELSE IF ~r.allowed
              THEN /\ connections' = conns1
                   /\ IF stats # None /\ stats.shouldThrottle
                      THEN /\ nextCmd <= MaxCommands
                           /\ bus' = throttled.bus
                           /\ sessions' = throttled.sessions
                           /\ nextCmd' = nextCmd + 1
                      ELSE UNCHANGED <<bus, sessions, nextCmd>>
                   /\ UNCHANGED <<outbox, online>>
              ELSE /\ connections' = conns1
                   /\ CASE type = "handshake" ->
                            /\ sessions' = IF db THEN upsertSession(sessions, h) ELSE sessions
                            /\ online' = IF h # NoKey THEN online \cup {h} ELSE online
                        [] type = "batch" ->
                            /\ sessions' = IF db /\ stats # None
                                           THEN updateRiskScore(sessions, h,
                                                    calculateRiskScore(stats),
                                                    isBot(calculateRiskScore(stats)))
                                           ELSE sessions
                            /\ UNCHANGED online
                        [] OTHER -> UNCHANGED <<sessions, online>>
                   /\ UNCHANGED <<outbox, bus, nextCmd>>
    /\ UNCHANGED <<accepted, commandLog, admin, frames, now, obsVars, sinkVars, beaconVars, clientVars>>

\* ws 'close': handleDisconnect
SocketClosed(c, db) ==
    /\ connections[c] # None
    /\ sessions' = IF db /\ connections[c].sessionHash # NoKey
                   THEN updateSessionStatus(sessions, connections[c].sessionHash, FALSE)
                   ELSE sessions
    /\ connections' = [connections EXCEPT ![c] = None]
    /\ outbox' = [outbox EXCEPT ![c] = None]
    /\ UNCHANGED <<accepted, bus, online, commandLog, nextCmd, admin, frames>>
    /\ UNCHANGED <<limiterVars, obsVars, sinkVars, beaconVars, clientVars>>

\* the subscriber receives the oldest undelivered traffic:commands message
BusDeliverNewest ==
    /\ bus # <<>>
    /\ outbox' = subscribeToCommands(outbox, connections, bus[Len(bus)])
    /\ bus' = SubSeq(bus, 1, Len(bus) - 1)
    /\ UNCHANGED <<connections, accepted, sessions, online, commandLog, nextCmd, admin, frames>>
    /\ UNCHANGED <<limiterVars, obsVars, sinkVars, beaconVars, clientVars>>

BusDeliver ==
    /\ bus # <<>>
    /\ outbox' = subscribeToCommands(outbox, connections, Head(bus))
    /\ bus' = Tail(bus)
    /\ UNCHANGED <<connections, accepted, sessions, online, commandLog, nextCmd, admin, frames>>
    /\ UNCHANGED <<limiterVars, obsVars, sinkVars, beaconVars, clientVars>>

adminOnly == <<connections, accepted, outbox, online, frames>>

\* the latency a mode route passes to updateSessionMode and to the command
routeLatency(a) == IF a.body.latency = 0 THEN throttleLatency ELSE a.body.latency

\* the mode operation a request is carrying out on its current sessionHash
routeOf(a) == IF a.route = "batch" THEN a.body.action ELSE a.route

\* a request that has been answered
Done(key, status) == [Idle EXCEPT !.pc = "done", !.key = key, !.status = status]

\* the route handler up to its first await
handler(route, h, body) ==
    LET a == [Idle EXCEPT !.route = route, !.body = body,
                          !.h = IF route = "batch" THEN NoKey ELSE h]
    IN  CASE route = "get" ->
                Done(ValidKey, IF hasSession(sessions, h) THEN 200 ELSE 404)
          [] route \in ModeRoutes -> [a EXCEPT !.pc = "update"]
          [] route \in {"notify", "redirect"} ->
                IF body.present THEN [a EXCEPT !.pc = "publish"] ELSE Done(ValidKey, 400)
          [] route = "batch" ->
                IF body.action = NoKey \/ ~body.present
                THEN Done(ValidKey, 400)
                ELSE [a EXCEPT !.pc = "loop", !.rest = body.hashes]

\* a request arrives at an /admin route: the preHandler hook answers 401,
\* which ends the request, or lets the route handler run
AdminRequest(route, key, h, body) ==
    /\ admin.pc = "idle"
    /\ admin' = IF unauthorized(key)
                THEN Done(key, 401)
                ELSE [handler(route, h, body) EXCEPT !.key = key]
    /\ UNCHANGED <<bus, sessions, commandLog, nextCmd, adminOnly>>
    /\ UNCHANGED <<limiterVars, obsVars, sinkVars, beaconVars, clientVars>>

\* the response has been written: the slot serves the next request
AdminReply ==
    /\ admin.pc = "done"
    /\ admin' = Idle
    /\ UNCHANGED <<bus, sessions, commandLog, nextCmd, adminOnly>>
    /\ UNCHANGED <<limiterVars, obsVars, sinkVars, beaconVars, clientVars>>

\* batch-action: the head of one loop iteration
AdminLoop ==
    /\ admin.pc = "loop"
    /\ admin' =
         IF admin.rest = <<>> THEN Done(admin.key, 200)
         ELSE IF admin.body.action \in ModeRoutes
         THEN [admin EXCEPT !.pc = "update", !.h = Head(admin.rest), !.rest = Tail(admin.rest)]
         ELSE [admin EXCEPT !.rest = Tail(admin.rest)]
    /\ UNCHANGED <<bus, sessions, commandLog, nextCmd, adminOnly>>
    /\ UNCHANGED <<limiterVars, obsVars, sinkVars, beaconVars, clientVars>>

\* await postgres.updateSessionMode(...): it throws when the store is down
AdminUpdate(db) ==
    /\ admin.pc = "update"
    /\ LET w == routeWrite(routeOf(admin), routeLatency(admin))
       IN  IF db
           THEN /\ sessions' = updateSessionMode(sessions, admin.h, w.mode, w.latency)
                /\ admin' = [admin EXCEPT !.pc = "publish"]
           ELSE /\ admin' = Done(admin.key, 500)
                /\ UNCHANGED sessions
    /\ UNCHANGED <<bus, commandLog, nextCmd, adminOnly>>
    /\ UNCHANGED <<limiterVars, obsVars, sinkVars, beaconVars, clientVars>>

\* await redis.publish('traffic:commands', ...): it throws when Redis is down
AdminPublish(up) ==
    /\ admin.pc = "publish"
    /\ nextCmd <= MaxCommands
    /\ nextCmd' = nextCmd + 1
    /\ IF up
       THEN /\ bus' = publish(bus, admin.h,
                              routeCommand(routeOf(admin), nextCmd, routeLatency(admin)))
            /\ admin' = [admin EXCEPT !.pc = IF admin.route = "batch" THEN "loop" ELSE "log",
                                      !.cmd = nextCmd]
       ELSE /\ admin' = Done(admin.key, 500)
            /\ UNCHANGED bus
    /\ UNCHANGED <<sessions, commandLog, adminOnly>>
    /\ UNCHANGED <<limiterVars, obsVars, sinkVars, beaconVars, clientVars>>

\* await postgres.logCommand(...): it throws when the store is down
AdminLog(db) ==
    /\ admin.pc = "log"
    /\ IF db
       THEN /\ commandLog' = logCommand(commandLog, sessions, admin.cmd, admin.h)
            /\ admin' = Done(admin.key, 200)
       ELSE /\ admin' = Done(admin.key, 500)
            /\ UNCHANGED commandLog
    /\ UNCHANGED <<bus, sessions, nextCmd, adminOnly>>
    /\ UNCHANGED <<limiterVars, obsVars, sinkVars, beaconVars, clientVars>>

ServerHashes == {"h1"}
\* the connections of the admin-plane specification
AdminConns == {"c1"}
\* the frames of the control plane
ControlFrames == {"handshake", "pong"}

Next ==
    \/ \E c \in AdminConns : Connect(c)
    \/ \E c \in AdminConns, type \in ControlFrames, h \in ServerHashes :
            HandleMessage(c, type, h, TRUE)
    \/ \E c \in AdminConns : SocketClosed(c, TRUE)
    \/ BusDeliver
    \/ \E route \in Routes, key \in ApiKeys, h \in ServerHashes :
            \E body \in Bodies(route) : AdminRequest(route, key, h, body)
    \/ AdminReply
    \/ AdminLoop
    \/ \E db \in BOOLEAN : AdminUpdate(db)
    \/ \E up \in BOOLEAN : AdminPublish(up)
    \/ \E db \in BOOLEAN : AdminLog(db)

(***************************************************************************)
(* The client SDK: TrafficAnalyticsTracker and CommandDispatcher           *)
(*                                                                         *)
(* Time is the clock `now`; a timeout fires at or after its due time.      *)
(***************************************************************************)
\* the reconnect timeout of onclose (5000 ms in the source), in clock ticks
reconnectDelay == 2
\* config.batchSize (10 by default)
clientBatchSize == 2
\* sockets and beacons counted in one behaviour
MaxWire == 2
\* frames counted in one behaviour
MaxFrames == 3

\* latency_ms payloads the server sends, in clock ticks (-1: not a latency)
ClientLatencies == {-1, 0, 2}

\* the commands a server message carries
ServerCommands ==
    {[type |-> "SET_LATENCY", latency |-> l] : l \in ClientLatencies}
    \cup {[type |-> "TERMINATE", latency |-> 0], [type |-> "TOAST_ALERT", latency |-> 0]}

InitClient ==
    /\ tracker = [pc |-> "none", consentMode |-> TRUE]
    /\ consentGiven = FALSE
    /\ socket = "none"
    /\ isConnected = FALSE
    /\ clientQueue = 0
    /\ clientTimer = FALSE
    /\ reconnects = {}
    /\ currentLatency = 0
    /\ isTerminated = FALSE
    /\ delayed = {}
    /\ executed = None
    /\ wire = [sockets |-> 0, frames |-> 0, beacons |-> 0]

serverSide == <<buckets, violations, bannedSessions, obsVars, sinkVars, beaconVars,
                serverVars>>

\* sendEvent(event): the frame goes out when the tracker believes it is
\* connected
sendEvent(w, connected) ==
    IF connected THEN [w EXCEPT !.frames = @ + 1] ELSE w

\* what flush(immediate) puts on the network for a non-empty queue
flushWire(w, connected, immediate) ==
    IF immediate THEN [w EXCEPT !.beacons = @ + 1] ELSE sendEvent(w, connected)

\* the counters stay within MaxWire
withinWire(w) ==
    w.sockets <= MaxWire /\ w.frames <= MaxFrames /\ w.beacons <= MaxWire

\* new TrafficAnalyticsTracker(config) with autoConnect: initialize() starts
\* and awaits the session hash
NewTracker(consentMode) ==
    /\ tracker.pc = "none"
    /\ tracker' = [pc |-> "collect", consentMode |-> consentMode]
    /\ consentGiven' = ~consentMode
    /\ UNCHANGED <<socket, isConnected, clientQueue, clientTimer, reconnects,
                   currentLatency, isTerminated, delayed, executed, wire>>
    /\ UNCHANGED <<now, serverSide>>

\* connect(): a new WebSocket
connect(w) == [w EXCEPT !.sockets = @ + 1]

\* initialize() after the hash: wait for consent behind the banner, or connect
Initialize ==
    /\ tracker.pc = "collect"
    /\ IF tracker.consentMode /\ ~consentGiven
       THEN /\ tracker' = [tracker EXCEPT !.pc = "banner"]
            /\ UNCHANGED <<socket, wire>>
       ELSE /\ tracker' = [tracker EXCEPT !.pc = "connecting"]
            /\ socket' = "connecting"
            /\ wire' = connect(wire)
    /\ withinWire(wire')
    /\ UNCHANGED <<consentGiven, isConnected, clientQueue, clientTimer, reconnects,
                   currentLatency, isTerminated, delayed, executed>>
    /\ UNCHANGED <<now, serverSide>>

\* giveConsent(), called by the banner's Accept button
giveConsent ==
    /\ tracker.pc = "banner"
    /\ consentGiven' = TRUE
    /\ tracker' = [tracker EXCEPT !.pc = "connecting"]
    /\ socket' = "connecting"
    /\ wire' = connect(wire)
    /\ withinWire(wire')
    /\ UNCHANGED <<isConnected, clientQueue, clientTimer, reconnects,
                   currentLatency, isTerminated, delayed, executed>>
    /\ UNCHANGED <<now, serverSide>>

\* socket.onopen: the handshake is sent; the first connect()'s promise
\* resolves, and its caller installs the listeners and the flush interval
onopen ==
    /\ socket = "connecting"
    /\ socket' = "open"
    /\ isConnected' = TRUE
    /\ wire' = sendEvent(wire, TRUE)
    /\ withinWire(wire')
    /\ IF tracker.pc = "connecting"
       THEN tracker' = [tracker EXCEPT !.pc = "ready"] /\ clientTimer' = TRUE
       ELSE UNCHANGED <<tracker, clientTimer>>
    /\ UNCHANGED <<consentGiven, clientQueue, reconnects, currentLatency,
                   isTerminated, delayed, executed>>
    /\ UNCHANGED <<now, serverSide>>

\* socket.onclose (the server or the network closed the socket, or it never
\* opened): a reconnect is scheduled unless the session is terminated; a
\* first connect() whose socket never opened leaves initialize() waiting
onclose ==
    /\ socket \in {"connecting", "open"}
    /\ socket' = "closed"
    /\ isConnected' = FALSE
    /\ reconnects' = IF isTerminated THEN reconnects
                     ELSE reconnects \cup {now + reconnectDelay}
    /\ tracker' = IF tracker.pc = "connecting"
                  THEN [tracker EXCEPT !.pc = "stalled"] ELSE tracker
    /\ UNCHANGED <<consentGiven, clientQueue, clientTimer, currentLatency,
                   isTerminated, delayed, executed, wire>>
    /\ UNCHANGED <<now, serverSide>>

\* the reconnect timeout fires: connect()
Reconnect(t) ==
    /\ t \in reconnects
    /\ now >= t
    /\ reconnects' = reconnects \ {t}
    /\ socket' = "connecting"
    /\ wire' = connect(wire)
    /\ withinWire(wire')
    /\ UNCHANGED <<tracker, consentGiven, isConnected, clientQueue, clientTimer,
                   currentLatency, isTerminated, delayed, executed>>
    /\ UNCHANGED <<now, serverSide>>

\* trackEvent without the consent test
trackEventAlways(given, q) == q + 1

\* the length of the queue after trackEvent's push: nothing is pushed
\* without consent
trackEventPush(given, q) == IF ~given THEN q ELSE q + 1

\* trackEvent / trackInteraction, from a listener or from the page; the
\* queue is flushed when it reaches the batch size
trackEvent ==
    /\ tracker.pc # "none"
    /\ LET q == trackEventPush(consentGiven, clientQueue)
       IN  IF q = clientQueue
           THEN UNCHANGED <<clientQueue, wire>>
           ELSE IF q >= clientBatchSize
           THEN /\ clientQueue' = 0
                /\ wire' = flushWire(wire, isConnected, FALSE)
           ELSE /\ clientQueue' = q
                /\ UNCHANGED wire
    /\ withinWire(wire')
    /\ UNCHANGED <<tracker, consentGiven, socket, isConnected, clientTimer, reconnects,
                   currentLatency, isTerminated, delayed, executed>>
    /\ UNCHANGED <<now, serverSide>>

\* flush(immediate), from the flush interval (immediate = FALSE) or from the
\* beforeunload listener (immediate = TRUE)
flushClient(immediate) ==
    /\ IF immediate THEN tracker.pc = "ready" ELSE clientTimer
    /\ clientQueue > 0
    /\ clientQueue' = 0
    /\ wire' = flushWire(wire, isConnected, immediate)
    /\ withinWire(wire')
    /\ UNCHANGED <<tracker, consentGiven, socket, isConnected, clientTimer, reconnects,
                   currentLatency, isTerminated, delayed, executed>>
    /\ UNCHANGED <<now, serverSide>>

\* dispatches waiting in simulateLatency at a time
MaxDelayed == 1

\* a dispatch that delays every command
delayAll(latency, type) == IF latency > 0 THEN latency ELSE 0

\* dispatch's latency simulation: how long the handler of a command of the
\* given type waits
delayFor(latency, type) == IF latency > 0 /\ type # "SET_LATENCY" THEN latency ELSE 0

\* the handler of a command runs (the command was dispatched at time `at`),
\* then the acknowledgment is sent
runHandler(command, at) ==
    /\ executed' = [command |-> command, waited |-> now - at]
    /\ CASE command.type = "SET_LATENCY" ->
               /\ currentLatency' = IF command.latency < 0 THEN currentLatency
                                    ELSE command.latency
               /\ UNCHANGED <<isTerminated, socket, clientTimer, isConnected>>
         [] command.type = "TERMINATE" ->
               /\ isTerminated' = TRUE
               /\ socket' = IF socket = "none" THEN socket ELSE "closed"
               /\ clientTimer' = FALSE
               /\ isConnected' = FALSE
               /\ UNCHANGED currentLatency
         [] OTHER ->
               UNCHANGED <<currentLatency, isTerminated, socket, clientTimer, isConnected>>
    /\ wire' = sendEvent(wire, isConnected')
    /\ withinWire(wire')
    /\ UNCHANGED <<tracker, consentGiven, clientQueue, reconnects>>
    /\ UNCHANGED <<now, serverSide>>

\* socket.onmessage with a command: CommandDispatcher.dispatch up to its
\* await (a terminated dispatcher ignores the command)
dispatch(command) ==
    /\ socket = "open"
    /\ ~isTerminated
    /\ LET d == delayFor(currentLatency, command.type)
       IN  IF d > 0
           THEN /\ Cardinality(delayed) < MaxDelayed
                /\ delayed' = delayed \cup {[command |-> command, at |-> now, due |-> now + d]}
                /\ UNCHANGED <<tracker, consentGiven, socket, isConnected, clientQueue,
                               clientTimer, reconnects, currentLatency, isTerminated,
                               executed, wire>>
                /\ UNCHANGED <<now, serverSide>>
           ELSE /\ runHandler(command, now)
                /\ UNCHANGED delayed

\* simulateLatency's timeout fires: the waiting dispatch goes on
simulateLatency(d) ==
    /\ d \in delayed
    /\ now >= d.due
    /\ delayed' = delayed \ {d}
    /\ runHandler(d.command, d.at)

(***************************************************************************)
(* SpecLimiter: one limiter, admission calls at arbitrary times            *)
(***************************************************************************)
NoResult == [key |-> NoKey, allowed |-> FALSE, reason |-> "none", at |-> 0]

InitLimiter ==
    /\ now = 0
    /\ buckets = [k \in Keys |-> None]
    /\ violations = [k \in Keys |-> None]
    /\ bannedSessions = [k \in Keys |-> None]

InitL ==
    /\ InitLimiter
    /\ result = NoResult
    /\ window = None
    /\ InitSink
    /\ InitBeacon
    /\ InitServer
    /\ InitClient

\* the clock advances
Tick ==
    /\ now < MaxNow
    /\ now' = now + 1
    /\ UNCHANGED <<buckets, violations, bannedSessions, result, window>>
    /\ UNCHANGED <<sinkVars, beaconVars, serverVars, clientVars>>

\* one admission call isAllowed(k)
Admit(k) ==
    LET r == isAllowed(buckets, violations, bannedSessions, k, now)
    IN  /\ buckets' = r.buckets
        /\ violations' = r.violations
        /\ bannedSessions' = r.bannedSessions
        /\ result' = [key |-> k, allowed |-> r.allowed, reason |-> r.reason, at |-> now]
        /\ window' = IF window # None /\ window.key = k /\ r.allowed
                     THEN [window EXCEPT !.admitted = window.admitted + 1]
                     ELSE window
        /\ UNCHANGED <<now, sinkVars, beaconVars, serverVars, clientVars>>

\* the cleanup timer fires
Cleanup ==
    /\ buckets' = cleanupBuckets(buckets, now)
    /\ violations' = cleanupViolations(violations, now)
    /\ bannedSessions' = cleanupBans(bannedSessions, now)
    /\ UNCHANGED <<now, result, window, sinkVars, beaconVars, serverVars, clientVars>>

\* the observer opens an interval on an existing bucket: it notes the time
\* and the tokens the bucket holds at that time
StartWindow(k) ==
    /\ window = None
    /\ buckets[k] # None
    /\ window' = [key |-> k, t0 |-> now,
                  initialTokens |-> getTokens(buckets[k], now), admitted |-> 0]
    /\ UNCHANGED <<now, buckets, violations, bannedSessions, result, sinkVars, beaconVars, serverVars, clientVars>>

NextL ==
    \/ Tick
    \/ \E k \in LimiterKeys : Admit(k)
    \/ Cleanup
    \/ \E k \in LimiterKeys : StartWindow(k)

SpecLimiter == InitL /\ [][NextL]_vars

\* the event sink and the beacon endpoint, from the same initial state
SpecSink == InitL /\ [][NextS]_vars

\* the admin plane: one client connection, the command bus, the admin API
Init == InitL

Spec == Init /\ [][Next]_vars

\* the binding of connections to sessions: two client connections, the
\* command bus, and an administrator who sends notifications
NextB ==
    \/ \E c \in Conns : Connect(c)
    \/ \E c \in Conns, type \in ControlFrames, h \in ServerHashes \cup {NoKey} :
            HandleMessage(c, type, h, TRUE)
    \/ \E c \in Conns : SocketClosed(c, TRUE)
    \/ BusDeliver
    \/ \E h \in ServerHashes, body \in Bodies("notify") :
            AdminRequest("notify", ValidKey, h, body)
    \/ AdminReply
    \/ \E up \in BOOLEAN : AdminPublish(up)
    \/ \E db \in BOOLEAN : AdminLog(db)

SpecBinding == Init /\ [][NextB]_vars

\* client traffic under the clock: one connection sending frames of every
\* type, the limiter's cleanup timer, the command bus
NextT ==
    \/ Tick
    \/ Cleanup
    \/ \E c \in AdminConns : Connect(c)
    \/ \E c \in AdminConns, type \in FrameTypes, h \in ServerHashes, db \in BOOLEAN :
            HandleMessage(c, type, h, db)
    \/ \E c \in AdminConns, db \in BOOLEAN : SocketClosed(c, db)
    \/ BusDeliver

SpecTraffic == Init /\ [][NextT]_vars

(***************************************************************************)
(* Claims on the rate limiter (SpecLimiter)                                *)
(***************************************************************************)

\* C5 -- Token conservation: over any interval that starts at time t0 with
\* initialTokens tokens in the bucket, the number of admitted cost-1 calls
\* is at most initialTokens + ceil((now - t0) / refillInterval) * refillRate.
C5_TokenConservation ==
    window # None =>
        window.admitted <= window.initialTokens
                           + CeilDiv(now - window.t0, refillInterval) * refillRate

\* an interval in which more calls were admitted than the bucket held at its
\* start: refilled tokens were consumed
C5_Witness ==
    /\ window # None
    /\ now > window.t0
    /\ window.admitted > window.initialTokens

\* C6 -- Ban monotonicity: when a key's violation count has reached
\* banThreshold, every admission call for the key made less than banDuration
\* after that violation returns allowed = false with reason "banned".
C6_BanMonotonicity ==
    [][\A k \in LimiterKeys :
          ( /\ violations[k] # None
            /\ violations[k].count >= banThreshold
            /\ now - violations[k].lastViolation < banDuration
            /\ result' # result
            /\ result'.key = k )
          => (~result'.allowed /\ result'.reason = "banned")]_vars

\* an admission call refused as banned some time after the ban was created
C6_Witness ==
    /\ result.reason = "banned"
    /\ result.key \in LimiterKeys
    /\ bannedSessions[result.key] # None
    /\ result.at > bannedSessions[result.key].bannedAt

(***************************************************************************)
(* Claims on the event sink and the beacon endpoint (SpecSink)             *)
(***************************************************************************)

\* C8 -- Event sink bound: the queue never holds more than MAX_QUEUE_SIZE
\* events, whatever the interleaving of logEvent calls, size-triggered
\* flushes, timer flushes and failed flushes that put events back.
C8_QueueBound == Len(eventQueue) <= MAX_QUEUE_SIZE

\* failed flushes have put events back up to the re-queue limit, which
\* logEvent alone never reaches (it flushes at batchSize)
C8_Witness ==
    /\ Len(eventQueue) = RequeueLimit
    /\ inflight # {}

\* C10 -- POST /beacon answers 204 whatever the body is, and every step that
\* hands one of the body's events to the sink is taken after the response
\* was produced and leaves the response as it is.
C10_BeaconAlways204 ==
    [][ /\ (beacon.pc = "received" /\ beacon'.pc # "received")
            => beacon'.status = 204
        /\ (beacon' # beacon /\ <<eventQueue, inflight>>' # <<eventQueue, inflight>>)
            => (beacon.status = 204 /\ beacon'.status = 204) ]_vars

\* after the answer, the callback has put the first event of the body in
\* the queue and is still running
C10_Witness ==
    /\ beacon.pc = "immediate"
    /\ beacon.status = 204
    /\ Len(beacon.rest) < Len(beacon.body.events)
    /\ \E i \in 1..Len(eventQueue) : eventQueue[i] = beacon.body.events[1]

(***************************************************************************)
(* Claims on the admin plane (Spec)                                        *)
(***************************************************************************)

\* C1 -- terminated is sticky: once a session's stored mode is terminated,
\* no later step (admin upspin or downspin, batch-action, auto-throttle)
\* changes its stored mode or its stored latency.
C1_TerminatedSticky ==
    [][\A h \in Hashes :
          (sessions[h] # None /\ sessions[h].mode = "terminated")
              => /\ sessions'[h] # None
                 /\ sessions'[h].mode = "terminated"
                 /\ sessions'[h].latency = sessions[h].latency]_vars

\* C2 -- once a connection of a terminated session has been sent the
\* TERMINATE command, no other command frame is sent to it while the stored
\* mode is terminated (the bus delivers in order, so any such frame carries a
\* command published after the termination).
C2_NoCommandAfterTerminated ==
    [][\A c \in Conns :
          ( /\ connections[c] # None
            /\ connections'[c] # None
            /\ hasSession(sessions, connections[c].sessionHash)
            /\ sessions[connections[c].sessionHash].mode = "terminated"
            /\ outbox[c] # None
            /\ outbox[c].type = "TERMINATE"
            /\ outbox'[c] # outbox[c] )
              => outbox'[c].type = "TERMINATE"]_vars

\* C3 -- a session whose stored mode is upspin has stored latency 0; the
\* command an upspin operation publishes is SET_LATENCY with latency 0; and
\* no step changes the latency of an upspin session while leaving it upspin.
C3_UpspinLatencyZero ==
    /\ [](\A h \in Hashes :
            (sessions[h] # None /\ sessions[h].mode = "upspin") => sessions[h].latency = 0)
    /\ [][ /\ (admin.pc = "publish" /\ routeOf(admin) = "upspin" /\ admin' # admin
                /\ Len(bus') > Len(bus))
                => /\ bus'[Len(bus')].command.type = "SET_LATENCY"
                   /\ bus'[Len(bus')].command.latency = 0
           /\ \A h \in Hashes :
                (sessions[h] # None /\ sessions[h].mode = "upspin"
                    /\ sessions'[h].latency # sessions[h].latency)
                    => sessions'[h].mode # "upspin" ]_vars

\* an upspin session whose client has been sent the SET_LATENCY 0 command
C3_Witness ==
    /\ sessions["h1"] # None
    /\ sessions["h1"].mode = "upspin"
    /\ sessions["h1"].latency = 0
    /\ connections["c1"] # None
    /\ outbox["c1"] = [id |-> 1, type |-> "SET_LATENCY", latency |-> 0]

\* C7 -- a request whose X-API-Key is absent or wrong is answered 401 by the
\* step that receives it; that step writes nothing to the session store, the
\* command log or the event sink and publishes nothing; and the request
\* takes no further step.
C7_AuthTotality ==
    [][(admin' # admin /\ admin'.key # ValidKey)
          => /\ admin'.pc = "done"
             /\ admin'.status = 401
             /\ UNCHANGED <<sessions, commandLog, bus, nextCmd, online,
                            eventQueue, inflight, outbox>>]_vars

\* a request without a key has been answered 401 while a session is stored
\* and connected
C7_Witness ==
    /\ admin.pc = "done"
    /\ admin.key = NoKey
    /\ admin.status = 401
    /\ sessions["h1"] # None
    /\ connections["c1"] # None

(***************************************************************************)
(* Claims on connection binding (SpecBinding)                              *)
(***************************************************************************)

\* C4 -- at most one open connection is bound to a sessionHash at any time.
C4_AtMostOneBinding ==
    \A c \in Conns, d \in Conns :
        ( /\ c # d
          /\ connections[c] # None /\ connections[d] # None
          /\ connections[c].ws = "OPEN" /\ connections[d].ws = "OPEN"
          /\ connections[c].sessionHash # NoKey )
            => connections[c].sessionHash # connections[d].sessionHash

(***************************************************************************)
(* Claims on client traffic (SpecTraffic)                                  *)
(***************************************************************************)

\* C9 -- every stored risk score lies in 0..100 and the stored bot flag is
\* true exactly when the stored score exceeds 80.
C9_RiskClamp ==
    \A h \in Hashes :
        sessions[h] # None
            => /\ sessions[h].riskScore \in 0..100
               /\ sessions[h].isBot = (sessions[h].riskScore > 80)

\* a batch frame has written a score above zero
C9_Witness == sessions["h1"] # None /\ sessions["h1"].riskScore > 0

(***************************************************************************)
(* Claims on the admin routes and the command bus (Spec)                   *)
(***************************************************************************)

C12_AutoBan ==
    [][\A c \in Conns, type \in FrameTypes, h \in ServerHashes, db \in BOOLEAN :
          HandleMessage(c, type, h, db)
            => /\ ( /\ violations'[h] # None
                    /\ violations'[h] # violations[h]
                    /\ violations'[h].count >= banThreshold )
                    => bannedSessions'[h] = [bannedAt |-> now, duration |-> banDuration]
               /\ ( /\ bannedSessions[h] # None
                    /\ now - bannedSessions[h].bannedAt < banDuration )
                    => /\ connections[c].ws = "OPEN"
                          => outbox'[c] =
                               [id |-> 0, type |-> "TERMINATE",
                                reason |-> "Too many requests - temporarily banned"]
                       /\ connections'[c].ws = "CLOSING"
                       /\ UNCHANGED <<buckets, violations, bannedSessions, sessions,
                                      online, bus, nextCmd, eventQueue>>]_vars

\* the frame after the one that reached banThreshold has been answered with
\* TERMINATE and the socket is closing
C12_Witness ==
    /\ violations["h1"] # None
    /\ violations["h1"].count = banThreshold
    /\ bannedSessions["h1"] # None
    /\ connections["c1"] # None
    /\ connections["c1"].ws = "CLOSING"
    /\ outbox["c1"] = [id |-> 0, type |-> "TERMINATE",
                       reason |-> "Too many requests - temporarily banned"]

(***************************************************************************)
(* SpecBan: a flooding client and a newcomer                               *)
(***************************************************************************)
\* One client floods connection c1 with handshake frames for a session until
\* the session is banned; a second connection c2 sends a single frame, a
\* handshake for the same session, at any moment.
NextN ==
    \/ Tick
    \/ \E c \in Conns : Connect(c)
    \/ \E h \in ServerHashes : HandleMessage("c1", "handshake", h, TRUE)
    \/ \E h \in ServerHashes :
            /\ connections["c2"] # None
            /\ connections["c2"].sessionHash = NoKey
            /\ HandleMessage("c2", "handshake", h, TRUE)
    \/ \E c \in Conns : SocketClosed(c, TRUE)

SpecBan == Init /\ [][NextN]_vars

\* C13 -- a handshake for a banned sessionHash on a new connection writes
\* nothing to the session store and tracks no presence, and neither does the
\* close of that connection: the stored session, its connected flag included,
\* is as it was before the handshake.  (In SpecBan connection c2 sends one
\* frame only, so when its socket is closing that frame was a handshake
\* refused as banned.)
C13_BannedHandshakeNoWrites ==
    [][ /\ \A h \in ServerHashes :
             ( /\ HandleMessage("c2", "handshake", h, TRUE)
               /\ connections["c2"].sessionHash = NoKey
               /\ bannedSessions[h] # None
               /\ now - bannedSessions[h].bannedAt < banDuration )
               => UNCHANGED <<sessions, online>>
        /\ ( /\ connections["c2"] # None
             /\ connections["c2"].ws = "CLOSING"
             /\ connections'["c2"] = None )
             => UNCHANGED <<sessions, online>> ]_vars

BadLatencies == {-1}

\* the bodies an administrator sends to downspin, notify and redirect, the
\* invalid ones included (notify and redirect: present = FALSE is a body
\* without message / url)
ValidationBodies(route) ==
    Bodies(route) \cup
    (IF route = "downspin"
     THEN {[NoBody EXCEPT !.latency = l] : l \in BadLatencies}
     ELSE {})

NextV ==
    \/ \E c \in AdminConns : Connect(c)
    \/ \E c \in AdminConns, h \in ServerHashes : HandleMessage(c, "handshake", h, TRUE)
    \/ BusDeliver
    \/ \E route \in {"downspin", "notify", "redirect"}, h \in ServerHashes :
            \E body \in ValidationBodies(route) : AdminRequest(route, ValidKey, h, body)
    \/ AdminReply
    \/ \E db \in BOOLEAN : AdminUpdate(db)
    \/ \E up \in BOOLEAN : AdminPublish(up)
    \/ \E db \in BOOLEAN : AdminLog(db)

SpecValidation == Init /\ [][NextV]_vars

\* C15 -- a request with invalid input (notify without message, redirect
\* without url, downspin with a negative latency_ms) is answered 400 on
\* arrival: it is never in progress, so no step of it writes the session
\* store or publishes a command.
C15_ValidationErrors ==
    [][LET invalid(a) ==
               \/ a.route \in {"notify", "redirect"} /\ ~a.body.present
               \/ a.route = "downspin" /\ a.body.latency < 0
       IN  /\ (admin.pc = "idle" /\ admin'.pc \notin {"idle", "done"})
                => ~invalid(admin')
           /\ (admin.pc \notin {"idle", "done"} /\ invalid(admin) /\ admin' # admin)
                => UNCHANGED <<sessions, bus>>]_vars

(***************************************************************************)
(* SpecTargeting: batch actions against two client connections             *)
(***************************************************************************)
\* the sessionHashes arrays of the batch-action bodies: a session's hash, or
\* a null element (the route requires an array and nothing of its elements)
TargetLists == {<<"h1">>, <<NoKey>>}

TargetBodies ==
    {[present |-> TRUE, latency |-> 0, action |-> "terminate", hashes |-> hs] :
        hs \in TargetLists}

NextG ==
    \/ \E c \in Conns : Connect(c)
    \/ \E c \in Conns, h \in ServerHashes : HandleMessage(c, "handshake", h, TRUE)
    \/ \E c \in Conns : SocketClosed(c, TRUE)
    \/ BusDeliver
    \/ \E body \in TargetBodies : AdminRequest("batch", ValidKey, NoKey, body)
    \/ AdminReply
    \/ AdminLoop
    \/ AdminUpdate(TRUE)
    \/ AdminPublish(TRUE)

SpecTargeting == Init /\ [][NextG]_vars

\* C16 -- when the subscriber receives a bus message, the command is sent to
\* the open connections bound to the message's sessionHash and to no other:
\* a connection that is unbound, or bound to another sessionHash, is sent
\* nothing, and with no bound connection the message has no effect.
C16_DeliveryTargeting ==
    [][BusDeliver
         => \A c \in Conns :
              IF /\ connections[c] # None
                 /\ connections[c].sessionHash # NoKey
                 /\ connections[c].sessionHash = Head(bus).sessionHash
                 /\ connections[c].ws = "OPEN"
              THEN outbox'[c] = Head(bus).command
              ELSE outbox'[c] = outbox[c]]_vars

\* C17 -- commands for one sessionHash reach a connection bound to it in the
\* order in which they arrived at the subscriber (the order of their ids):
\* each command sent to a connection arrived after the command the
\* connection was sent before, and every message for the connection's
\* sessionHash that still waits arrived after the last command sent.
C17_PerSessionOrder ==
    /\ [](\A c \in Conns :
            (connections[c] # None /\ outbox[c] # None
                /\ outbox[c].type # "connected" /\ outbox[c].id > 0)
              => \A i \in 1..Len(bus) :
                    bus[i].sessionHash = connections[c].sessionHash
                        => bus[i].command.id > outbox[c].id)
    /\ [][\A c \in Conns :
            (BusDeliver /\ outbox'[c] # outbox[c]
                /\ outbox[c].type # "connected" /\ outbox[c].id > 0)
              => outbox'[c].id > outbox[c].id]_vars

\* a connection bound to h1 has been sent the first command for h1 while
\* the second one waits at the subscriber
C17_Witness ==
    /\ connections["c1"] # None
    /\ connections["c1"].sessionHash = "h1"
    /\ outbox["c1"] = [id |-> 1, type |-> "TERMINATE"]
    /\ Len(bus) = 1
    /\ bus[1].sessionHash = "h1"
    /\ bus[1].command.id = 2

(***************************************************************************)
(* SpecFrames: frame handlers interleaving at their store writes           *)
(***************************************************************************)
\* ws.on('message', async (data) => { await this.handleMessage(...) }): the
\* emitter does not wait for the promise, so the handler of a frame runs up
\* to its first await and the next frame's handler starts while the store
\* works.  frames[c] holds the handlers of connection c that are awaiting,
\* in the order their frames were received; a batch frame's events are
\* logged through the event sink's LogEvent.

\* frame handlers of one connection awaiting at a time
MaxInFlight == 2

\* the types of the frames whose handlers await the session store
StoreFrames == {"handshake", "batch"}

\* handleMessage up to its first await: binding and admission; an admitted
\* frame's handler then awaits its first store call; a denied frame is
\* handled as in HandleMessage
FrameReceived(c, type, h) ==
    /\ connections[c] # None
    /\ Len(frames[c]) < MaxInFlight
    /\ LET r == isAllowed(buckets, violations, bannedSessions, h, now)
       IN  IF r.allowed
           THEN /\ buckets' = r.buckets
                /\ violations' = r.violations
                /\ bannedSessions' = r.bannedSessions
                /\ connections' =
                     [connections EXCEPT ![c].sessionHash = IF @ = NoKey THEN h ELSE @]
                /\ frames' =
                     [frames EXCEPT ![c] =
                        Append(@, [type |-> type, h |-> h, score |-> 0,
                                   pc |-> IF type = "handshake"
                                          THEN "upsertSession"
                                          ELSE "incrementEventCount"])]
                /\ UNCHANGED <<accepted, outbox, bus, sessions, online, commandLog,
                               nextCmd, admin, now, obsVars, sinkVars, beaconVars, clientVars>>
           ELSE HandleMessage(c, type, h, TRUE)

\* frames[c] without its i-th handler
dropFrame(fs, i) == SubSeq(fs, 1, i - 1) \o SubSeq(fs, i + 1, Len(fs))

\* the store call the i-th awaiting handler of connection c is waiting for
\* completes, and the handler runs up to its next await or to its end
StoreStep(c, i) ==
    /\ i \in 1..Len(frames[c])
    /\ LET f == frames[c][i]
           stats == getViolationStats(violations, f.h, now)
       IN  CASE f.pc = "upsertSession" ->
                    /\ sessions' = upsertSession(sessions, f.h)
                    /\ frames' = [frames EXCEPT ![c][i].pc = "trackOnlineSession"]
                    /\ UNCHANGED online
             [] f.pc = "trackOnlineSession" ->
                    /\ online' = online \cup {f.h}
                    /\ frames' = [frames EXCEPT ![c] = dropFrame(@, i)]
                    /\ UNCHANGED sessions
             [] f.pc = "incrementEventCount" ->
                    /\ frames' = IF stats # None
                                 THEN [frames EXCEPT ![c][i].pc = "updateRiskScore",
                                                     ![c][i].score = calculateRiskScore(stats)]
                                 ELSE [frames EXCEPT ![c] = dropFrame(@, i)]
                    /\ UNCHANGED <<sessions, online>>
             [] f.pc = "updateRiskScore" ->
                    /\ sessions' = updateRiskScore(sessions, f.h, f.score, isBot(f.score))
                    /\ frames' = [frames EXCEPT ![c] = dropFrame(@, i)]
                    /\ UNCHANGED online
    /\ UNCHANGED <<connections, accepted, outbox, bus, commandLog, nextCmd, admin>>
    /\ UNCHANGED <<limiterVars, obsVars, sinkVars, beaconVars, clientVars>>

NextF ==
    \/ Tick
    \/ \E c \in AdminConns : Connect(c)
    \/ \E c \in AdminConns, type \in StoreFrames, h \in ServerHashes :
            FrameReceived(c, type, h)
    \/ \E c \in AdminConns, i \in 1..MaxInFlight : StoreStep(c, i)

SpecFrames == Init /\ [][NextF]_vars

\* C18 -- within one connection the handler of a frame has ended before the
\* handler of the next frame begins: at most one handler of a connection is
\* in progress; in particular, when a batch's event-count update runs, the
\* upsert of a handshake received before it on the connection, for the same
\* session, is done.
C18_FramesInOrder ==
    /\ [](\A c \in Conns : Len(frames[c]) <= 1)
    /\ [][\A c \in Conns, i \in 1..MaxInFlight :
            (StoreStep(c, i) /\ frames[c][i].pc = "incrementEventCount")
              => \A j \in 1..(i - 1) :
                    ~( /\ frames[c][j].type = "handshake"
                       /\ frames[c][j].h = frames[c][i].h
                       /\ frames[c][j].pc = "upsertSession" )]_vars

(***************************************************************************)
(* Claims on store failures and the audit trail (Spec)                     *)
(***************************************************************************)

\* C19 -- a session-store write that fails does not abort the admin request
\* that issued it: the step of a request that is at one of its store writes
\* (updateSessionMode, logCommand) never ends the request with an error.
C19_StoreWritesDegrade ==
    [][(admin.pc \in {"update", "log"} /\ admin' # admin)
          => ~(admin'.pc = "done" /\ admin'.status = 500)]_vars

\* C20 -- when a mutating admin request is answered with success, the
\* command it published (the one its answer carries) has a record in the
\* command history.
C20_AuditComplete ==
    [][( /\ admin.pc \notin {"idle", "done"}
         /\ admin'.pc = "done"
         /\ admin'.status = 200
         /\ admin.cmd # 0 )
          => admin.cmd \in commandLog']_vars

(***************************************************************************)
(* SpecClient: one page with the SDK, its server and its user              *)
(***************************************************************************)
NextC ==
    \/ Tick
    \/ \E consentMode \in BOOLEAN : NewTracker(consentMode)
    \/ Initialize
    \/ giveConsent
    \/ onopen
    \/ onclose
    \/ \E t \in reconnects : Reconnect(t)
    \/ trackEvent
    \/ \E immediate \in BOOLEAN : flushClient(immediate)
    \/ \E command \in ServerCommands : dispatch(command)
    \/ \E d \in delayed : simulateLatency(d)

SpecClient == Init /\ [][NextC]_vars

\* the dispatcher alone: the connection and the commands the server sends
NextD ==
    \/ Tick
    \/ NewTracker(FALSE)
    \/ Initialize
    \/ onopen
    \/ onclose
    \/ \E t \in reconnects : Reconnect(t)
    \/ \E command \in ServerCommands : dispatch(command)
    \/ \E d \in delayed : simulateLatency(d)

SpecDispatch == Init /\ [][NextD]_vars

\* the tracker alone: consent, the connection, event tracking and flushing
NextK ==
    \/ Tick
    \/ \E consentMode \in BOOLEAN : NewTracker(consentMode)
    \/ Initialize
    \/ giveConsent
    \/ onopen
    \/ onclose
    \/ \E t \in reconnects : Reconnect(t)
    \/ trackEvent
    \/ \E immediate \in BOOLEAN : flushClient(immediate)

SpecTracker == Init /\ [][NextK]_vars

\* C21 -- Client SET_LATENCY semantics: the latency changes only when a
\* SET_LATENCY command is dispatched, and that command runs in the dispatch
\* itself, undelayed; while the latency is L > 0 the handler of any other
\* dispatched command does not run in the dispatch and runs no earlier than L
\* after it; while the latency is 0 every dispatched command runs at once.
C21_SetLatencyDelay ==
    /\ [][\A command \in ServerCommands :
            dispatch(command) /\ command.type = "SET_LATENCY"
            => /\ executed' = [command |-> command, waited |-> 0]
               /\ delayed' = delayed
               /\ command.latency >= 0 => currentLatency' = command.latency]_vars
    /\ [][currentLatency' # currentLatency
            => \E command \in ServerCommands :
                  /\ command.type = "SET_LATENCY"
                  /\ dispatch(command)
                  /\ currentLatency' = command.latency]_vars
    /\ [][\A command \in ServerCommands :
            dispatch(command) /\ command.type # "SET_LATENCY" /\ currentLatency > 0
            => /\ executed' = executed
               /\ delayed' = delayed \cup {[command |-> command, at |-> now,
                                             due |-> now + currentLatency]}]_vars
    /\ [][\A d \in delayed :
            simulateLatency(d)
            => /\ now >= d.due
               /\ executed' = [command |-> d.command, waited |-> now - d.at]]_vars
    /\ [][\A command \in ServerCommands :
            dispatch(command) /\ currentLatency = 0
            => /\ executed' = [command |-> command, waited |-> 0]
               /\ delayed' = delayed]_vars

\* a TOAST_ALERT dispatched under latency 2 has run, two ticks or more later
C21_Witness ==
    /\ executed # None
    /\ executed.command.type = "TOAST_ALERT"
    /\ currentLatency = 2
    /\ executed.waited >= 2

\* C22 -- Client TERMINATE semantics: once the TERMINATE handler has run the
\* socket is closed and stays closed, no reconnect is pending or scheduled,
\* and no socket is opened, no frame is sent and no beacon is posted.
C22_TerminateStopsTraffic ==
    /\ [](isTerminated => socket \in {"none", "closed"} /\ reconnects = {})
    /\ [][isTerminated => wire' = wire /\ reconnects' = reconnects]_vars

\* C23 -- Consent mode: while consent has not been given the tracker has
\* opened no socket, sent no frame or beacon, queued no event and started no
\* flush interval, and trackEvent changes nothing; consent is given only by
\* giveConsent (or not required at construction), and giveConsent opens the
\* socket, after which trackEvent queues or flushes the event.
C23_ConsentMode ==
    /\ [](~consentGiven
            => /\ wire = [sockets |-> 0, frames |-> 0, beacons |-> 0]
               /\ clientQueue = 0
               /\ socket = "none"
               /\ ~clientTimer)
    /\ [][~consentGiven /\ trackEvent => UNCHANGED clientVars]_vars
    /\ [][consentGiven' # consentGiven => giveConsent \/ NewTracker(FALSE)]_vars
    /\ [][giveConsent
            => /\ tracker.consentMode /\ consentGiven'
               /\ socket' = "connecting"
               /\ wire' = [wire EXCEPT !.sockets = 1]]_vars
    /\ [][consentGiven /\ trackEvent
            => \/ clientQueue' = clientQueue + 1
               \/ clientQueue + 1 >= clientBatchSize /\ clientQueue' = 0]_vars

\* in consent mode, after the consent: connected, with an event in the queue
C23_Witness ==
    /\ tracker.consentMode
    /\ consentGiven
    /\ tracker.pc = "ready"
    /\ socket = "open"
    /\ clientQueue > 0

\* C24 -- a handshake for a sessionHash whose stored mode is `terminated` is
\* rejected: the frame's connection is closed, it is not bound to the session,
\* and the session is neither marked connected nor tracked as online.
C24_TerminatedHandshakeRejected ==
    [][\A c \in Conns, h \in ServerHashes :
          /\ hasSession(sessions, h)
          /\ sessions[h].mode = "terminated"
          /\ connections[c] # None
          /\ connections[c].sessionHash = NoKey
          /\ HandleMessage(c, "handshake", h, TRUE)
          => /\ connections'[c].ws # "OPEN"
             /\ connections'[c].sessionHash = NoKey
             /\ sessions' = sessions
             /\ online' = online]_vars

\* C25 -- the violation rate is count / max(1, elapsed), so that a throttle
\* is never signalled on a key's first denial, nor before five denials of
\* the key have been recorded: a denied frame that publishes the throttle
\* command leaves a violation count of at least 5.
C25_ThrottleNeedsFiveDenials ==
    [][\A c \in Conns, type \in FrameTypes, h \in ServerHashes, db \in BOOLEAN :
          (HandleMessage(c, type, h, db) /\ violations'[h] # violations[h] /\ bus' # bus)
            => /\ violations[h] # None
               /\ violations'[h].count >= maxEventsPerSecond]_vars

\* C27 -- auto-throttle de-bouncing: within any 5-second window at most one
\* auto-throttle SET_LATENCY command is published for a session.  With one
\* session, no administrator and a clock that starts at 0, the commands
\* published before the first window (5 seconds of TicksPerSecond ticks)
\* has passed are at most one.
C27_AutoThrottleDebounced ==
    now < 5 * TicksPerSecond => nextCmd - 1 <= 1

\* C28 -- on a connection that is not yet bound only a handshake frame is
\* accepted: a frame of any other type leaves the connection unbound and is
\* not dispatched (the session store and the presence set are unchanged).
C28_UnboundAcceptsOnlyHandshake ==
    [][\A c \in Conns, type \in FrameTypes \ {"handshake"}, h \in ServerHashes,
         db \in BOOLEAN :
          /\ connections[c] # None
          /\ connections[c].sessionHash = NoKey
          /\ HandleMessage(c, type, h, db)
          => /\ connections'[c].sessionHash = NoKey
             /\ UNCHANGED <<sessions, online>>]_vars

\* C26 -- Token bucket invariant: every bucket holds between 0 and capacity
\* tokens; an admission call that observes a bucket leaves it with
\* min(capacity, tokens_prev + floor((now - lastRefill) / refillInterval) *
\* refillRate) tokens minus the token the call consumed; and a bucket created
\* by the call starts from capacity tokens.
C26_TokenBucketInvariant ==
    /\ [](\A k \in LimiterKeys :
            buckets[k] # None => buckets[k].tokens >= 0 /\ buckets[k].tokens <= capacity)
    /\ [][\A k \in LimiterKeys :
            (Admit(k) /\ result'.reason # "banned")
            => LET prev == IF buckets[k] = None
                           THEN [tokens |-> capacity, lastRefill |-> now]
                           ELSE buckets[k]
                   consumed == IF result'.allowed THEN 1 ELSE 0
               IN  /\ buckets'[k] # None
                   /\ buckets'[k].tokens =
                        Min(capacity,
                            prev.tokens
                            + ((now - prev.lastRefill) \div refillInterval) * refillRate)
                        - consumed
                   /\ result'.allowed <=> buckets'[k].tokens + consumed >= 1]_vars

\* a key that was denied on an empty bucket has been admitted at a later
\* time: the bucket was refilled at this call and its token consumed
C26_Witness ==
    \E k \in LimiterKeys :
        /\ buckets[k] # None
        /\ violations[k] # None
        /\ result.key = k
        /\ result.allowed
        /\ result.at = now
        /\ buckets[k].lastRefill = now
        /\ violations[k].lastViolation < now
        /\ buckets[k].tokens = 0

\* C29 -- Event sink flush failure: a failed insert puts back a prefix of its
\* batch, of at most RequeueLimit events, in their order and ahead of what
\* the queue holds, and the rest of the batch is gone; a successful insert
\* leaves the queue as it is; and the queue and the pending batches never
\* hold an event twice.
C29_FlushFailureRequeue ==
    /\ [][\A f \in inflight :
            InsertFail(f)
            => LET n == Len(eventQueue') - Len(eventQueue)
               IN  /\ n >= 0 /\ n <= RequeueLimit /\ n <= Len(f.batch)
                   /\ eventQueue' = SubSeq(f.batch, 1, n) \o eventQueue
                   /\ inflight' = inflight \ {f}]_vars
    /\ [][\A f \in inflight :
            InsertOk(f) => eventQueue' = eventQueue /\ inflight' = inflight \ {f}]_vars
    /\ [](LET ids(s) == {s[i].id : i \in 1..Len(s)}
          IN  /\ Cardinality(ids(eventQueue)) = Len(eventQueue)
              /\ \A f \in inflight :
                    /\ Cardinality(ids(f.batch)) = Len(f.batch)
                    /\ ids(f.batch) \cap ids(eventQueue) = {}
                    /\ \A g \in inflight \ {f} : ids(f.batch) \cap ids(g.batch) = {})

\* the insert of the batch <<1, 2>> failed when event 3 was in the queue:
\* event 1 is back at the head and event 2 was dropped
C29_Witness ==
    /\ Len(eventQueue) = 2
    /\ eventQueue[1].id = 1
    /\ eventQueue[2].id = 3
    /\ inflight = {}

\* C30 -- Event sink shutdown: once close() has started every logEvent call
\* is refused, and when close() has returned (its one final flush is no
\* longer pending) the queue is empty.
C30_ShutdownDrains ==
    /\ [][isShuttingDown /\ (\E h \in SinkHashes : LogEvent(h))
            => UNCHANGED <<eventQueue, inflight>>]_vars
    /\ []((isShuttingDown /\ ~\E f \in inflight : f.waiter = "close")
            => eventQueue = <<>>)

\* C31 -- the disconnect of a connection marks its session disconnected only
\* if no other connection is bound to the session: when a socket closes while
\* another open connection is bound to the same sessionHash, the stored
\* session stays as it is.
C31_UnbindKeepsLiveSession ==
    [][\A c \in Conns, c2 \in Conns :
          /\ c2 # c
          /\ connections[c] # None /\ connections[c2] # None
          /\ connections[c].sessionHash # NoKey
          /\ connections[c2].sessionHash = connections[c].sessionHash
          /\ connections[c2].ws = "OPEN"
          /\ SocketClosed(c, TRUE)
          => sessions' = sessions]_vars

(***************************************************************************)
(* SpecRace: an administrator's mode change of a stored session and the    *)
(* session's auto-throttle, with the store and the bus always answering    *)
(***************************************************************************)
NextR ==
    \/ \E c \in AdminConns : Connect(c)
    \/ \E c \in AdminConns, h \in ServerHashes : HandleMessage(c, "handshake", h, TRUE)
    \/ BusDeliver
    \/ \E route \in {"upspin", "downspin"}, h \in ServerHashes :
            \E body \in Bodies(route) :
                hasSession(sessions, h) /\ AdminRequest(route, ValidKey, h, body)
    \/ AdminReply
    \/ AdminUpdate(TRUE)
    \/ AdminPublish(TRUE)
    \/ AdminLog(TRUE)

SpecRace == Init /\ [][NextR]_vars

\* C32 -- mode changes of one session take effect in the store in the order
\* in which their SET_LATENCY commands reach the client: once no request is
\* in flight and the bus is empty, the latency of the SET_LATENCY command the
\* bound connection received last is the session's stored latency.
C32_StoreOrderIsDeliveryOrder ==
    \A c \in AdminConns, h \in ServerHashes :
        ( /\ admin.pc \in {"idle", "done"}
          /\ bus = <<>>
          /\ connections[c] # None
          /\ connections[c].sessionHash = h
          /\ hasSession(sessions, h)
          /\ outbox[c] # None
          /\ outbox[c].type = "SET_LATENCY" )
        => outbox[c].latency = sessions[h].latency

\* C33 -- an admin mutating route that answers with an error status has had
\* no visible effect: when a request of upspin, downspin, terminate, notify
\* or redirect is answered 400 or 500, it has published no command, and the
\* answering step publishes nothing and leaves the store as it is.
C33_ErrorMeansNoEffect ==
    [][( /\ admin.pc \notin {"idle", "done"}
         /\ admin.route \in {"upspin", "downspin", "terminate", "notify", "redirect"}
         /\ admin'.pc = "done"
         /\ admin'.status \in {400, 500} )
        => /\ admin.cmd = 0
           /\ UNCHANGED <<bus, sessions>>]_vars

\* C34 -- admission cannot be bypassed through the frame's sessionHash field:
\* every frame on a connection bound to a sessionHash is admitted against the
\* bucket and the ban record of that sessionHash, whether the frame carries
\* the same sessionHash or none: it touches no other key's bucket, and while
\* the bound sessionHash has no token left the frame is not dispatched.
C34_BoundKeyAdmission ==
    [][\A c \in Conns, type \in ControlFrames, h \in ServerHashes \cup {NoKey} :
          /\ connections[c] # None
          /\ connections[c].sessionHash # NoKey
          /\ HandleMessage(c, type, h, TRUE)
          => LET H == connections[c].sessionHash
             IN  /\ \A k \in Keys \ {H} : buckets'[k] = buckets[k]
                 /\ (buckets[H] # None /\ getTokens(buckets[H], now) = 0)
                      => violations'[H] # violations[H]]_vars

(***************************************************************************)
(* SpecRebind: one connection sending handshakes under two sessionHashes,  *)
(* and notifications published for either of them                          *)
(***************************************************************************)
NextH ==
    \/ \E c \in AdminConns : Connect(c)
    \/ \E c \in AdminConns, h \in Hashes : HandleMessage(c, "handshake", h, TRUE)
    \/ \E c \in AdminConns : SocketClosed(c, TRUE)
    \/ BusDeliver
    \/ \E h \in Hashes : AdminRequest("notify", ValidKey, h, [NoBody EXCEPT !.present = TRUE])
    \/ AdminReply
    \/ AdminPublish(TRUE)
    \/ AdminLog(TRUE)

SpecRebind == Init /\ [][NextH]_vars

\* C35 -- once a connection's sessionHash is set it never changes while the
\* connection lives, whatever sessionHash later frames carry, and a command
\* is delivered to a connection only if the connection's sessionHash is the
\* one the command was published for.
C35_BindingIsFinal ==
    /\ [][\A c \in Conns :
            ( /\ connections[c] # None
              /\ connections[c].sessionHash # NoKey
              /\ connections'[c] # None )
            => connections'[c].sessionHash = connections[c].sessionHash]_vars
    /\ [][BusDeliver
            => \A c \in Conns :
                  outbox'[c] # outbox[c]
                  => /\ connections[c] # None
                     /\ connections[c].sessionHash = Head(bus).sessionHash
                     /\ outbox'[c] = Head(bus).command]_vars

\* the connection bound to h1 has since sent a handshake carrying h2 (which
\* created h2's row), and has been delivered a notification published for h1
C35_Witness ==
    /\ connections["c1"] # None
    /\ connections["c1"].sessionHash = "h1"
    /\ sessions["h2"] # None
    /\ outbox["c1"] # None
    /\ outbox["c1"].type = "TOAST_ALERT"

\* C36 -- a key's violation count is not reset when its ban ends: the removal
\* of a ban leaves the key's violation record, if it is kept, as it was, and
\* the first denied admission of a key whose count has reached banThreshold
\* and which is not banned creates a new ban of banDuration at once.
C36_RebanAfterExpiry ==
    /\ [][\A k \in LimiterKeys :
            ( /\ bannedSessions[k] # None
              /\ bannedSessions'[k] = None
              /\ violations'[k] # None )
            => violations'[k] = violations[k]]_vars
    /\ [][\A k \in LimiterKeys :
            ( /\ violations[k] # None
              /\ violations[k].count >= banThreshold
              /\ ~isBanned(bannedSessions, k, now)
              /\ Admit(k)
              /\ ~result'.allowed )
            => /\ result'.reason = "rate_limit"
               /\ violations'[k].count = violations[k].count + 1
               /\ bannedSessions'[k] = [bannedAt |-> now, duration |-> banDuration]]_vars

\* one denial after the first ban ended: the count is banThreshold + 1 and
\* the key has just been banned again
C36_Witness ==
    \E k \in LimiterKeys :
        /\ violations[k] # None
        /\ violations[k].count = banThreshold + 1
        /\ bannedSessions[k] # None
        /\ bannedSessions[k].bannedAt = now
        /\ result = [key |-> k, allowed |-> FALSE, reason |-> "rate_limit", at |-> now]

(***************************************************************************)
(* SpecScore: the risk score of a batch, for any violation statistics      *)
(***************************************************************************)
\* the statistics getViolationStats can return: a count of at least 1, and
\* a rate that is above 10 only if it is above 5
ScoreStats ==
    {[count |-> n, epsAbove5 |-> r[1], epsAbove10 |-> r[2], shouldThrottle |-> r[1],
      throttleLatency |-> throttleLatency] :
        n \in 1..(violationsHigh + 1),
        r \in {<<FALSE, FALSE>>, <<TRUE, FALSE>>, <<TRUE, TRUE>>}}

\* the end of handleBatchEvents for a session with violation statistics: the
\* score and the bot flag are written to the session's row
BatchScored(h, stats) ==
    /\ sessions' = updateRiskScore(sessions, h, calculateRiskScore(stats),
                                   isBot(calculateRiskScore(stats)))
    /\ UNCHANGED <<connections, accepted, outbox, bus, online, commandLog, nextCmd,
                   admin, frames>>
    /\ UNCHANGED <<limiterVars, obsVars, sinkVars, beaconVars, clientVars>>

NextP ==
    \/ \E c \in Conns : Connect(c)
    \/ \E c \in Conns, h \in Hashes : HandleMessage(c, "handshake", h, TRUE)
    \/ \E h \in Hashes, stats \in ScoreStats : BatchScored(h, stats)

SpecScore == Init /\ [][NextP]_vars

\* C37 -- the risk score never exceeds 70, whatever the violation
\* statistics: every stored score is one of 0, 15, 20, 30, 35, 40, 50, 55,
\* 70, and the stored bot flag is false.
C37_ScoreBelowBotThreshold ==
    \A h \in Hashes :
        sessions[h] # None
            => /\ sessions[h].riskScore \in {0, 15, 20, 30, 35, 40, 50, 55, 70}
               /\ sessions[h].riskScore <= 70
               /\ ~sessions[h].isBot

\* the highest score: a rate above 10 with a count above violationsHigh
C37_Witness ==
    /\ sessions["h1"] # None
    /\ sessions["h1"].riskScore = 70
    /\ ~sessions["h1"].isBot

\* C38 -- every command whose handler the dispatcher runs is acknowledged:
\* the step in which a handler runs, at once or after the latency delay,
\* sends exactly one frame (the command_ack) to the server.
C38_EveryCommandAcknowledged ==
    [][( \/ \E command \in ServerCommands :
              /\ dispatch(command)
              /\ executed' = [command |-> command, waited |-> 0]
              /\ delayed' = delayed
         \/ \E d \in delayed : simulateLatency(d) )
        => wire'.frames = wire.frames + 1]_vars

\* C39 -- once the TERMINATE handler has run (isTerminated is true) no
\* command handler runs any more, a command still waiting out the latency
\* delay included.
C39_NoHandlerAfterTerminate ==
    [][isTerminated =>
        /\ ~ \E d \in delayed : d.command.type # "TERMINATE" /\ simulateLatency(d)
        /\ ~ \E command \in ServerCommands : dispatch(command)]_vars

\* C40 -- a denied admission consumes nothing: a call denied with reason
\* rate_limit leaves the key's bucket with the tokens it had, the time-based
\* refill apart, and no other bucket changes; a call denied with reason
\* banned changes no bucket (none is created, none is decremented) and no
\* violation record.
C40_DeniedConsumesNothing ==
    [][\A k \in Keys :
          Admit(k) =>
            /\ result'.reason = "rate_limit" =>
                 /\ buckets[k] # None
                 /\ buckets'[k] = refill(buckets[k], now)
                 /\ buckets'[k].tokens = getTokens(buckets[k], now)
                 /\ \A j \in Keys \ {k} : buckets'[j] = buckets[j]
            /\ result'.reason = "banned" =>
                 /\ buckets' = buckets
                 /\ violations' = violations]_vars

\* a banned key is denied while its bucket holds a token, which stays there
C40_Witness ==
    /\ result.reason = "banned"
    /\ result.at = now
    /\ buckets[result.key] # None
    /\ getTokens(buckets[result.key], now) >= 1

=============================================================================
